---- MODULE Spec2Model ----
(***************************************************************************)
(* A model of solver.py, the subanagram search.  A word is a sequence of   *)
(* one-character strings.  The word lists and the pickled lookup table     *)
(* "lookup.p" are files on disk; every invocation of main() is a process   *)
(* with its own locals.                                                     *)
(***************************************************************************)
EXTENDS Integers, Sequences, FiniteSets, TLC

VARIABLES
    wordlists,          \* the word-list files on disk, by path
    lookup_p,           \* the file "lookup.p": whether it exists, and its content
    pc,                 \* where each process is in main()
    args,               \* parse_args(): [input, listpath] of each process
    word_pos,           \* generate_lookup: lines of wordlist_file read so far
    anagrams,           \* generate_lookup: the `anagrams` dictionary being built
    vectors,            \* generate_lookup: the `vectors` dictionary being built
    lookup_off,         \* generate_lookup: chunks of lookup_file written so far
    results_unordered,  \* main: the set returned by get_results
    stdout,             \* what print_results printed: a sequence of groups
    exit_status         \* -1 while running, 0 on success, 1 on an uncaught exception

vars == <<wordlists, lookup_p, pc, args, word_pos, anagrams, vectors,
          lookup_off, results_unordered, stdout, exit_status>>

----------------------------------------------------------------------------
(* Bounds of the model. *)

\* A word list has at most MaxLines lines.
MaxLines == 2
\* Processes that may run main() (one after another in Spec, interleaved in SpecConc).
NumProcs == 2
\* pickle.dump reaches the file in this many writes.
NumChunks == 2

Procs == 1..NumProcs

\* The lines a word list is made of (without their newline).
Tokens ==
    { <<>>, <<" ">>, <<"a">>, <<"b">>, <<"a", "b">>, <<"b", "a">>,
      <<"A">>, <<"a", " ">>, <<" ", "a">> }

\* The query words given on the command line.
Inputs ==
    { <<>>, <<"a">>, <<"a", "b">>, <<"b", "a">>, <<"A">>, <<"a", "B">> }

DefaultPath == "corncob_lowercase.txt"
UserPath == "user.txt"
Paths == {DefaultPath, UserPath}

\* The bundled word list: lowercase words, one per line.
Bundled == << <<"a">>, <<"a", "b">>, <<"b", "a">>, <<"b">> >>

WordLists == UNION { [1..n -> Tokens] : n \in 0..MaxLines }

Missing == [readable |-> FALSE, lines |-> <<>>]
File(lines) == [readable |-> TRUE, lines |-> lines]

----------------------------------------------------------------------------
(* Strings. *)

ascii_lowercase ==
    << "a", "b", "c", "d", "e", "f", "g", "h", "i", "j", "k", "l", "m",
       "n", "o", "p", "q", "r", "s", "t", "u", "v", "w", "x", "y", "z" >>

\* ord() of the characters the model uses.
CodePoint ==
    ("\n" :> 10) @@ (" " :> 32) @@ ("A" :> 65) @@ ("B" :> 66) @@
    ("a" :> 97) @@ ("b" :> 98)

Whitespace == {" ", "\n", "\t"}

\* str.lower() of one character, and of a string.
LowerChar(c) == IF c = "A" THEN "a" ELSE IF c = "B" THEN "b" ELSE c
lower(s) == [i \in 1..Len(s) |-> LowerChar(s[i])]

\* str.rstrip(): the string without its trailing whitespace.
RECURSIVE rstrip(_)
rstrip(s) ==
    IF s # <<>> /\ s[Len(s)] \in Whitespace
    THEN rstrip(SubSeq(s, 1, Len(s) - 1))
    ELSE s

\* str.count(letter)
count(word, letter) == Cardinality({i \in 1..Len(word) : word[i] = letter})

\* sorted(word): the characters in non-decreasing code point order.
RECURSIVE Insert(_, _)
Insert(c, s) ==
    IF s = <<>> THEN <<c>>
    ELSE IF CodePoint[c] <= CodePoint[Head(s)] THEN <<c>> \o s
    ELSE <<Head(s)>> \o Insert(c, Tail(s))

RECURSIVE sorted(_)
sorted(word) ==
    IF word = <<>> THEN <<>> ELSE Insert(Head(word), sorted(Tail(word)))

\* A vectorize_word that folds the case of the word before counting.
vectorize_word_anycase(word) ==
    [i \in 1..Len(ascii_lowercase) |-> count(lower(word), ascii_lowercase[i])]

\* vectorize_word: the count of each of the 26 lowercase letters.
vectorize_word(word) ==
    [i \in 1..Len(ascii_lowercase) |-> count(word, ascii_lowercase[i])]

\* An open() that hands back an empty file when there is none to read.
open_lenient(file) == "ok"

\* open(wordlist_path, 'r'): succeeds, or raises.
open(file) == IF file.readable THEN "ok" ELSE "FileNotFoundError"

\* An isfile() that never finds the file.
isfile_never(file) == FALSE

\* os.path.isfile("lookup.p")
isfile(file) == file.exists

\* wordlist_file.readline() after `pos` lines were read: the next line with
\* its newline, or the empty string at the end of the file.
readline(file, pos) ==
    IF pos < Len(file.lines) THEN file.lines[pos + 1] \o <<"\n">> ELSE <<>>

----------------------------------------------------------------------------
(* The dictionaries and the pickled file. *)

EmptyDict == [k \in {} |-> {}]

\* An AddAnagram that files the word under itself, not under its sorted letters.
AddAnagram_unsorted(d, word) ==
    [k \in DOMAIN d \cup {word} |->
        IF k = word THEN (IF word \in DOMAIN d THEN d[word] ELSE {}) \cup {word}
        ELSE d[k]]

\* Lines 51-60: one word of the word list goes into the two dictionaries.
AddAnagram(d, word) ==
    LET sorted_word == sorted(word)
        old == IF sorted_word \in DOMAIN d THEN d[sorted_word] ELSE {}
    IN  [k \in DOMAIN d \cup {sorted_word} |->
            IF k = sorted_word THEN old \cup {word} ELSE d[k]]

AddVector(anas, v, word) ==
    LET sorted_word == sorted(word)
    IN  IF sorted_word \in DOMAIN anas
        THEN v
        ELSE [k \in DOMAIN v \cup {sorted_word} |->
                IF k = sorted_word THEN vectorize_word(sorted_word) ELSE v[k]]

\* pickle.dump((anagrams, vectors)): the bytes, as NumChunks chunks.
Pickle(obj) == [k \in 1..NumChunks |-> [chunk |-> k, of |-> obj]]

\* A hole left in the file by a write beyond its end.
Zeros == [chunk |-> 0, of |-> <<EmptyDict, EmptyDict>>]

\* The content is the complete pickle of one object.
Complete(data) ==
    /\ Len(data) = NumChunks
    /\ \A k \in 1..NumChunks : data[k].chunk = k /\ data[k].of = data[1].of

\* pickle.load of a complete file.
Unpickle(data) == data[1].of

\* lookup_file.write at offset `off` (0-based) of a file holding `data`.
WriteAt(data, off, chunk) ==
    [k \in 1..(IF Len(data) > off + 1 THEN Len(data) ELSE off + 1) |->
        IF k = off + 1 THEN chunk
        ELSE IF k <= Len(data) THEN data[k] ELSE Zeros]

----------------------------------------------------------------------------
(* get_results and print_results. *)

\* A subanagram test with < for <=.
Dominated_strict(candidate_vectorized, input_vectorized) ==
    \A letter \in 1..26 : candidate_vectorized[letter] < input_vectorized[letter]

\* A subanagram test with the comparison the wrong way round.
Dominated_reversed(candidate_vectorized, input_vectorized) ==
    \A letter \in 1..26 : input_vectorized[letter] <= candidate_vectorized[letter]

\* Line 98: the subanagram test.
Dominated(candidate_vectorized, input_vectorized) ==
    \A letter \in 1..26 : candidate_vectorized[letter] <= input_vectorized[letter]

\* Lines 90-100: the union of the anagram sets of the passing candidates.
Candidates(anas, vecs, search_input) ==
    UNION { anas[candidate] : candidate \in
              { c \in DOMAIN anas : Dominated(vecs[c], vectorize_word(search_input)) } }

\* A get_results that leaves the search input in the results.
RemoveInput_skip(results, search_input) == results

\* Lines 102-103: the search input is removed from the results.
RemoveInput(results, search_input) == results \ {search_input}

\* Lines 81-105, given the loaded dictionaries.
get_results(anas, vecs, input) ==
    LET search_input == lower(input)
    IN  RemoveInput(Candidates(anas, vecs, search_input), search_input)

\* Line 137: range(len(search_input), 1, -1) as a sequence.
LengthRange(n) == [i \in 1..(IF n > 1 THEN n - 1 ELSE 0) |-> n + 1 - i]

\* Lines 125-140: the groups printed, in printing order.
print_results(search_input, results) ==
    LET results_ordered(length) == {w \in results : Len(w) = length}
        lengths == SelectSeq(LengthRange(Len(search_input)),
                             LAMBDA length : results_ordered(length) # {})
    IN  [i \in 1..Len(lengths) |->
            [length |-> lengths[i], words |-> results_ordered(lengths[i])]]

----------------------------------------------------------------------------
(* The state before any invocation: word lists on disk, no lookup.p. *)

Locals ==
    /\ pc = [p \in Procs |-> "idle"]
    /\ args = [p \in Procs |-> [input |-> <<>>, listpath |-> DefaultPath]]
    /\ word_pos = [p \in Procs |-> 0]
    /\ anagrams = [p \in Procs |-> EmptyDict]
    /\ vectors = [p \in Procs |-> EmptyDict]
    /\ lookup_off = [p \in Procs |-> 0]
    /\ results_unordered = [p \in Procs |-> {}]
    /\ stdout = [p \in Procs |-> <<>>]
    /\ exit_status = [p \in Procs |-> -1]

Init ==
    /\ \E user \in {Missing} \cup {File(l) : l \in WordLists} :
          wordlists = (DefaultPath :> File(Bundled)) @@ (UserPath :> user)
    /\ lookup_p = [exists |-> FALSE, data |-> <<>>]
    /\ Locals

\* The word lists of the runs that race for lookup.p.
InitConc ==
    /\ \E user \in {Missing, File(<< <<"b">> >>)} :
          wordlists = (DefaultPath :> File(Bundled)) @@ (UserPath :> user)
    /\ lookup_p = [exists |-> FALSE, data |-> <<>>]
    /\ Locals

----------------------------------------------------------------------------
(* main() and the functions it calls, one action per step. *)

\* Lines 22-26: a new invocation parses its arguments and looks for lookup.p.
Main(p) ==
    /\ pc[p] \in {"idle", "exited"}
    /\ \E input \in Inputs, listpath \in Paths :
          args' = [args EXCEPT ![p] = [input |-> input, listpath |-> listpath]]
    /\ pc' = [pc EXCEPT ![p] =
                IF ~isfile(lookup_p) THEN "generate_lookup" ELSE "get_results"]
    /\ word_pos' = [word_pos EXCEPT ![p] = 0]
    /\ anagrams' = [anagrams EXCEPT ![p] = EmptyDict]
    /\ vectors' = [vectors EXCEPT ![p] = EmptyDict]
    /\ lookup_off' = [lookup_off EXCEPT ![p] = 0]
    /\ results_unordered' = [results_unordered EXCEPT ![p] = {}]
    /\ stdout' = [stdout EXCEPT ![p] = <<>>]
    /\ exit_status' = [exit_status EXCEPT ![p] = -1]
    /\ UNCHANGED <<wordlists, lookup_p>>

\* Lines 43-47: generate_lookup opens the word list; open() raises when the
\* file is missing or unreadable, and nothing in main() catches it.
OpenWordlist(p) ==
    /\ pc[p] = "generate_lookup"
    /\ IF open(wordlists[args[p].listpath]) = "ok"
       THEN /\ pc' = [pc EXCEPT ![p] = "readline"]
            /\ UNCHANGED exit_status
       ELSE /\ pc' = [pc EXCEPT ![p] = "exited"]
            /\ exit_status' = [exit_status EXCEPT ![p] = 1]
    /\ UNCHANGED <<wordlists, lookup_p, args, word_pos, anagrams, vectors,
                   lookup_off, results_unordered, stdout>>

\* Lines 49-60: one turn of the while loop; it ends at the first line that is
\* empty after rstrip().
ReadLine(p) ==
    /\ pc[p] = "readline"
    /\ LET word == rstrip(readline(wordlists[args[p].listpath], word_pos[p]))
       IN  IF word # <<>>
           THEN /\ anagrams' = [anagrams EXCEPT ![p] = AddAnagram(@, word)]
                /\ vectors' = [vectors EXCEPT ![p] = AddVector(anagrams[p], @, word)]
                /\ word_pos' = [word_pos EXCEPT ![p] = @ + 1]
                /\ UNCHANGED pc
           ELSE /\ pc' = [pc EXCEPT ![p] = "open_lookup"]
                /\ UNCHANGED <<anagrams, vectors, word_pos>>
    /\ UNCHANGED <<wordlists, lookup_p, args, lookup_off, results_unordered,
                   stdout, exit_status>>

\* Line 65: open("lookup.p", 'wb') creates the file, or truncates it.
OpenLookup(p) ==
    /\ pc[p] = "open_lookup"
    /\ lookup_p' = [exists |-> TRUE, data |-> <<>>]
    /\ lookup_off' = [lookup_off EXCEPT ![p] = 0]
    /\ pc' = [pc EXCEPT ![p] = "dump"]
    /\ UNCHANGED <<wordlists, args, word_pos, anagrams, vectors,
                   results_unordered, stdout, exit_status>>

\* Lines 66-68: pickle.dump writes the next chunk at the writer's own offset;
\* after the last one the file is closed and generate_lookup returns.
Dump(p) ==
    /\ pc[p] = "dump"
    /\ lookup_p' = [lookup_p EXCEPT !.data =
            WriteAt(@, lookup_off[p],
                    Pickle(<<anagrams[p], vectors[p]>>)[lookup_off[p] + 1])]
    /\ lookup_off' = [lookup_off EXCEPT ![p] = @ + 1]
    /\ pc' = [pc EXCEPT ![p] =
                IF lookup_off[p] + 1 = NumChunks THEN "get_results" ELSE "dump"]
    /\ UNCHANGED <<wordlists, args, word_pos, anagrams, vectors,
                   results_unordered, stdout, exit_status>>

\* Lines 81-105: get_results loads lookup.p and computes the result set;
\* pickle.load raises on a file that is not one complete pickle.
GetResults(p) ==
    /\ pc[p] = "get_results"
    /\ IF lookup_p.exists /\ Complete(lookup_p.data)
       THEN /\ results_unordered' = [results_unordered EXCEPT ![p] =
                    get_results(Unpickle(lookup_p.data)[1],
                                Unpickle(lookup_p.data)[2], args[p].input)]
            /\ pc' = [pc EXCEPT ![p] = "print_results"]
            /\ UNCHANGED exit_status
       ELSE /\ pc' = [pc EXCEPT ![p] = "exited"]
            /\ exit_status' = [exit_status EXCEPT ![p] = 1]
            /\ UNCHANGED results_unordered
    /\ UNCHANGED <<wordlists, lookup_p, args, word_pos, anagrams, vectors,
                   lookup_off, stdout>>

\* Lines 32, 123-140: the results are printed and main() returns.
PrintResults(p) ==
    /\ pc[p] = "print_results"
    /\ stdout' = [stdout EXCEPT ![p] =
                    print_results(args[p].input, results_unordered[p])]
    /\ pc' = [pc EXCEPT ![p] = "exited"]
    /\ exit_status' = [exit_status EXCEPT ![p] = 0]
    /\ UNCHANGED <<wordlists, lookup_p, args, word_pos, anagrams, vectors,
                   lookup_off, results_unordered>>

Step(p) ==
    \/ Main(p)
    \/ OpenWordlist(p)
    \/ ReadLine(p)
    \/ OpenLookup(p)
    \/ Dump(p)
    \/ GetResults(p)
    \/ PrintResults(p)

\* Invocations one after another.
Next == Step(1)

Spec == Init /\ [][Next]_vars

\* Invocations running at the same time.
NextConc == \E p \in Procs : Step(p)

SpecConc == InitConc /\ [][NextConc]_vars

----------------------------------------------------------------------------
(* What the properties below speak about. *)

\* The words of an `anagrams` dictionary.
Words(anas) == UNION {anas[k] : k \in DOMAIN anas}

\* The number of lowercase letters a-z in a word.
LetterCount(w) ==
    Cardinality({i \in 1..Len(w) :
                    \E j \in 1..Len(ascii_lowercase) : w[i] = ascii_lowercase[j]})

\* The words of `words` that use no lowercase letter more often than
\* lower(q) has it, without lower(q) itself.
SubanagramsOf(words, q) ==
    {w \in words :
        \A j \in 1..Len(ascii_lowercase) :
            count(w, ascii_lowercase[j]) <= count(lower(q), ascii_lowercase[j])}
        \ {lower(q)}

\* s holds the characters of w in non-decreasing order.
IsSortingOf(s, w) ==
    /\ Len(s) = Len(w)
    /\ \A i \in 1..Len(s) :
          /\ count(s, s[i]) = count(w, s[i])
          /\ count(s, w[i]) = count(w, w[i])
    /\ \A i, j \in 1..Len(s) : i < j => CodePoint[s[i]] <= CodePoint[s[j]]

\* The two dictionaries are keyed alike and hold what generate_lookup puts there.
CoKeyed(anas, vecs) ==
    /\ DOMAIN anas = DOMAIN vecs
    /\ \A s \in DOMAIN anas :
          /\ anas[s] # {}
          /\ \A w \in anas[s] : IsSortingOf(s, w)
          /\ DOMAIN vecs[s] = 1..26
          /\ \A j \in 1..26 : vecs[s][j] = count(s, ascii_lowercase[j])

\* The index in lookup.p, once the file is complete.
Index == Unpickle(lookup_p.data)

\* get_results has returned to main() in the running invocation.
Returned == pc[1] = "print_results"

\* The running invocation has built the index itself, from its own word list.
Built == lookup_off[1] = NumChunks

\* The lines of the word list the running invocation was given.
Lines == wordlists[args[1].listpath].lines

----------------------------------------------------------------------------
(* C1: the set get_results returns is exactly the indexed words whose count  *)
(* of each lowercase letter is at most that of lower(q), minus lower(q); an  *)
(* indexed anagram of the query other than lower(q) is in the result.        *)
C1_Subanagrams ==
    Returned =>
        /\ results_unordered[1] = SubanagramsOf(Words(Index[1]), args[1].input)
        /\ \A w \in Words(Index[1]) :
              (w # lower(args[1].input) /\ IsSortingOf(sorted(args[1].input), w))
                  => w \in results_unordered[1]

\* The query "ab" over an index holding "ab" and "ba": "ba" is returned.
C1_Witness ==
    /\ Returned
    /\ args[1].input = <<"a", "b">>
    /\ {<<"a", "b">>, <<"b", "a">>} \subseteq Words(Index[1])
    /\ <<"b", "a">> \in results_unordered[1]
    /\ <<"a", "b">> \notin results_unordered[1]

(* C7: every non-blank line of the word list, also one after a blank line,  *)
(* puts its trimmed token into the index: the words of the finished index   *)
(* are the non-blank trimmed lines of the source.                            *)
C7_AllLinesIndexed ==
    pc[1] = "open_lookup" =>
        Words(anagrams[1]) = {rstrip(Lines[i]) : i \in 1..Len(Lines)} \ {<<>>}

(* C9: while generate_lookup builds the index, and in the index persisted,   *)
(* `anagrams` and `vectors` have the same keys, no anagram set is empty,     *)
(* every word of anagrams[s] sorts to s, and vectors[s] counts s's letters.  *)
C9_CoKeyed ==
    /\ CoKeyed(anagrams[1], vectors[1])
    /\ (lookup_p.exists /\ Complete(lookup_p.data)) => CoKeyed(Index[1], Index[2])

\* Mid-build, with two words filed under one key.
C9_Witness ==
    /\ pc[1] = "readline"
    /\ <<"a", "b">> \in DOMAIN anagrams[1]
    /\ anagrams[1][<<"a", "b">>] = {<<"a", "b">>, <<"b", "a">>}

(* C2: for a word w that is a line of the word list, get_results(w) over    *)
(* the index built from that list never contains w.                          *)
C2_SelfExclusion ==
    (Returned /\ Built /\ \E i \in 1..Len(Lines) : Lines[i] = args[1].input)
        => args[1].input \notin results_unordered[1]

\* C2 as amended: w is excluded when it has no uppercase letter (the word
\* removed is lower(w)).
C2_SelfExclusionLower ==
    (Returned /\ Built /\ \E i \in 1..Len(Lines) : Lines[i] = args[1].input)
        => /\ lower(args[1].input) \notin results_unordered[1]
           /\ args[1].input = lower(args[1].input)
                  => args[1].input \notin results_unordered[1]

\* The query "ab" is a line of the list the index was built from, passes the
\* subanagram test against itself, and is not returned.
C2_Witness ==
    /\ Returned
    /\ Built
    /\ args[1].input = <<"a", "b">>
    /\ \E i \in 1..Len(Lines) : Lines[i] = <<"a", "b">>
    /\ <<"a", "b">> \in DOMAIN Index[2]
    /\ Dominated(Index[2][<<"a", "b">>], vectorize_word(<<"a", "b">>))
    /\ <<"a", "b">> \notin results_unordered[1]

(* C3: no word in the set get_results(q) returns has more characters than q. *)
C3_LengthBound ==
    Returned => \A w \in results_unordered[1] : Len(w) <= Len(args[1].input)

\* C3 as amended: no returned word has more lowercase letters a-z than q has
\* characters, so a returned word made of a-z only is no longer than q.
C3_LetterBound ==
    Returned =>
        \A w \in results_unordered[1] :
            /\ LetterCount(w) <= Len(args[1].input)
            /\ LetterCount(w) = Len(w) => Len(w) <= Len(args[1].input)

\* A word as long as the query is returned while a longer indexed word is not.
C3_Witness ==
    /\ Returned
    /\ \E w \in results_unordered[1] : LetterCount(w) = Len(args[1].input)
    /\ \E v \in Words(Index[1]) \ results_unordered[1] :
          LetterCount(v) > Len(args[1].input)

(* C4: get_results("") returns the empty set, whatever the word list. *)
C4_EmptyQuery ==
    (Returned /\ args[1].input = <<>>) => results_unordered[1] = {}

\* C4 as amended: get_results("") returns the indexed words that have no
\* lowercase letter a-z, so the empty set when every indexed word has one.
C4_EmptyQueryLetterless ==
    (Returned /\ args[1].input = <<>>) =>
        /\ results_unordered[1] = {w \in Words(Index[1]) : LetterCount(w) = 0}
        /\ (\A w \in Words(Index[1]) : LetterCount(w) > 0)
               => results_unordered[1] = {}

\* The empty query over an index of words with letters: nothing is returned.
C4_Witness ==
    /\ Returned
    /\ args[1].input = <<>>
    /\ Words(Index[1]) # {}
    /\ results_unordered[1] = {}

(* C5: when generate_lookup cannot open the word list, the invocation ends  *)
(* with a non-zero exit status, prints nothing and writes no index; it      *)
(* never goes on to compute or print a result set.                           *)
C5_BuildFailureIsFatal ==
    [][(pc[1] = "generate_lookup" /\ ~wordlists[args[1].listpath].readable)
          => /\ pc'[1] = "exited"
             /\ exit_status'[1] = 1
             /\ stdout'[1] = <<>>
             /\ lookup_p' = lookup_p]_vars

\* An invocation ended by the missing word list, with no index written.
C5_Witness ==
    /\ pc[1] = "exited"
    /\ exit_status[1] = 1
    /\ ~wordlists[args[1].listpath].readable
    /\ ~lookup_p.exists
    /\ stdout[1] = <<>>

(* C6: with invocations running at the same time, lookup.p never holds      *)
(* interleaved or partial writes when a reader loads it: a process about to *)
(* load sees one complete index written by a single build.                   *)
C6_AtomicIndex ==
    \A p \in Procs :
        pc[p] = "get_results" => (lookup_p.exists /\ Complete(lookup_p.data))

(* C8: print_results prints the groups in strictly decreasing length and    *)
(* every word of the result set appears in the group of its length.          *)
C8_AllWordsPrinted ==
    (pc[1] = "exited" /\ exit_status[1] = 0) =>
        /\ \A i, j \in 1..Len(stdout[1]) :
              i < j => stdout[1][i].length > stdout[1][j].length
        /\ \A i \in 1..Len(stdout[1]) :
              \A w \in stdout[1][i].words : Len(w) = stdout[1][i].length
        /\ \A w \in results_unordered[1] :
              \E i \in 1..Len(stdout[1]) :
                  stdout[1][i].length = Len(w) /\ w \in stdout[1][i].words

(* C10: an invocation runs generate_lookup exactly when lookup.p does not   *)
(* exist at its start; an existing lookup.p is never changed by a later     *)
(* invocation; and a query is answered from the index in lookup.p, whatever *)
(* word-list path the invocation was given.                                  *)
C10_LazyBuild ==
    [][/\ (pc[1] \in {"idle", "exited"} /\ pc'[1] \notin {"idle", "exited"})
            => (pc'[1] = "generate_lookup" <=> ~lookup_p.exists)
       /\ (pc'[1] = "generate_lookup") => pc[1] \in {"idle", "exited"}
       /\ (lookup_p.exists /\ pc[1] # "dump") => lookup_p' = lookup_p
       /\ (pc[1] = "get_results" /\ pc'[1] = "print_results")
            => results_unordered'[1] =
                   SubanagramsOf(Words(Index[1]), args[1].input)]_vars

\* A query answered from an index that an earlier invocation built from
\* another word list: the answer differs from what the given list holds.
C10_Witness ==
    /\ Returned
    /\ ~Built
    /\ wordlists[args[1].listpath].readable
    /\ results_unordered[1] #
          SubanagramsOf({rstrip(Lines[i]) : i \in 1..Len(Lines)}, args[1].input)

====
